---- MODULE Spec2Model ----
(***************************************************************************)
(* A model of src/filesystem_mcp.py: the MCPFilesystemClient that talks    *)
(* line-delimited JSON-RPC to a worker process over its standard streams,  *)
(* the policy resolver get_project_guidelines, and the orchestrator        *)
(* run_validation_async.                                                   *)
(*                                                                         *)
(* One step of the model is the code between two suspension points of the  *)
(* coroutine (an await that really waits).  The worker process and the     *)
(* clock are the environment: the worker answers requests, exits and has   *)
(* its pipes closed on its own schedule.                                   *)
(*                                                                         *)
(* Two specifications share the client's steps:                            *)
(*   Spec        one call of run_validation_async, with every argument and *)
(*               every outcome of the environment;                         *)
(*   ClientSpec  a caller that invokes the public methods of one           *)
(*               MCPFilesystemClient in any order (start_server at most    *)
(*               once and as the first lifecycle call, as the client's     *)
(*               lifecycle prescribes), one call at a time.                *)
(***************************************************************************)
EXTENDS Naturals, Sequences, FiniteSets

VARIABLES
    project_path,   \* argument: the project root, a sequence of characters
    llm_provider,   \* argument: the provider name
    policy_content, \* argument: the supplied policy text, or None
    files,          \* environment: the directories that hold a policy.txt
    process,        \* self.process: "None" or "Proc" (the handle)
    op,             \* where the client method in progress is suspended
    elapsed,        \* time units the current bounded wait has lasted
    ret,            \* how the last client method ended
    worker,         \* the worker process: "none", "running", "dead" (it has
                    \* exited and the event loop has not seen it), "exited"
                    \* (the return code is set), "reaped" (transport finished)
    eof,            \* the worker's output pipes are at end of file
    stdinClosed,    \* the loop has seen the worker's input pipe closed
    stdin,          \* every request line written to the worker, in order
    stdout,         \* response lines written by the worker and not yet read
    answered,       \* how many requests the worker has answered
    stray,          \* how many lines the worker wrote that are no answer
    stage,          \* where run_validation_async is
    policy,         \* local variable policy of run_validation_async
    project_files,  \* local variable project_files of run_validation_async
    result,         \* the record the try/except block is about to return
    outcome,        \* what the caller of the run has observed
    procCalls,      \* history: terminate()/kill() calls made on the handle
    closeCalls,     \* history: number of close() invocations
    startCalls,     \* history: number of start_server() invocations
    linesRead,      \* history: number of response lines the client consumed
    succeeded,      \* history: the steps of the run that succeeded
    llmCalls,       \* history: requests made to a model endpoint
    timedOut,       \* history: a send_request has ended in a timeout
    calls,          \* ClientSpec: number of method calls made by the caller
    tree,           \* the project tree: path (sequence of names) -> kind
    snapshots,      \* SnapshotSpec: the listings returned so far, each with
                    \* the order in which os.listdir enumerated the names
    bridge,         \* BridgeSpec: position of run_async
    loop,           \* BridgeSpec: the event loop of the thread calling run_async
    executions      \* BridgeSpec: times the coroutine was handed to a loop

vars == <<project_path, llm_provider, policy_content, files, process, op, stray,
          elapsed, ret, worker, eof, stdinClosed, stdin, stdout, answered, stage,
          policy,
          project_files, result, outcome, procCalls, closeCalls, startCalls, linesRead,
          succeeded, llmCalls, timedOut, calls, tree, snapshots,
          bridge, loop, executions>>

inputVars == <<project_path, llm_provider, policy_content, files>>
runVars == <<stage, policy, project_files, result, outcome, succeeded, llmCalls>>
hostVars == <<tree, snapshots>>
bridgeVars == <<bridge, loop, executions>>

(***************************************************************************)
(* Program constants: the three bounded waits.                             *)
(***************************************************************************)
START_GRACE == 2
READ_TIMEOUT == 15
CLOSE_TIMEOUT == 5

(***************************************************************************)
(* Bounds of the model.                                                    *)
(***************************************************************************)
MaxCalls == 4

\* the lines a worker writes that answer no request: at most
\* MaxNotifications before each of its first NotifiedRequests answers
MaxNotifications == 1
NotifiedRequests == 1

\* the lines a worker writes in all that are not the result or the error of
\* a request: notifications and lines the client cannot make a response of
MaxStrayLines == 1

(***************************************************************************)
(* Texts are sequences of one-character strings.                           *)
(***************************************************************************)
None == <<"<None>">>
\* The 29 characters str.strip() removes: space, \n, \t, \r, \f; U+000B,
\* U+001C to U+001F, U+0085, U+00A0 and U+1680, written as the characters
\* themselves; and U+2000 to U+200A, U+2028, U+2029, U+202F, U+205F and
\* U+3000, which cannot be written in a string and are each named by their
\* code point: "U+3000" as an element of a text is the one character U+3000.
Whitespace ==
    {" ", "\n", "\t", "\r", "\f", "", "", "", "", "",
     "", " ", " ",
     "U+2000", "U+2001", "U+2002", "U+2003", "U+2004", "U+2005",
     "U+2006", "U+2007", "U+2008", "U+2009", "U+200A", "U+2028",
     "U+2029", "U+202F", "U+205F", "U+3000"}

RECURSIVE lstrip(_)
lstrip(s) == IF s # <<>> /\ Head(s) \in Whitespace THEN lstrip(Tail(s)) ELSE s

RECURSIVE rstrip(_)
rstrip(s) ==
    IF s # <<>> /\ s[Len(s)] \in Whitespace
    THEN rstrip(SubSeq(s, 1, Len(s) - 1))
    ELSE s

strip(s) == rstrip(lstrip(s))

PolicyInputs == {None, <<" ", " ", "U+3000">>, <<" ", "p", "\n">>}

(***************************************************************************)
(* Paths are sequences of characters; the file name policy.txt is one      *)
(* element.                                                                *)
(***************************************************************************)
PolicyFile == <<"policy.txt">>

LastSlash(p) ==
    LET S == {i \in 1..Len(p) : p[i] = "/"}
    IN  IF S = {} THEN 0 ELSE CHOOSE i \in S : \A j \in S : j <= i

RECURSIVE rstripSlash(_)
rstripSlash(s) ==
    IF s # <<>> /\ s[Len(s)] = "/"
    THEN rstripSlash(SubSeq(s, 1, Len(s) - 1))
    ELSE s

\* os.path.join(a, b) for a relative b
join(a, b) ==
    IF a = <<>> \/ a[Len(a)] = "/" THEN a \o b ELSE a \o <<"/">> \o b

\* os.path.dirname(p)
dirname(p) ==
    LET head == SubSeq(p, 1, LastSlash(p))
    IN  IF head # <<>> /\ rstripSlash(head) # <<>> THEN rstripSlash(head) ELSE head

ProjectPaths == {<<"/", "a", "/", "b">>, <<"/", "a", "/", "b", "/">>, <<"/">>}

\* The directory a path names, as the file system resolves it.
Resolve(p) == IF rstripSlash(p) = <<>> THEN <<"/">> ELSE rstripSlash(p)

PolicyDirs == {<<"/", "a", "/", "b">>, <<"/", "a">>, <<"/">>}

\* The directory one level above directory root, as the file system resolves
\* it: the last component of the resolved root removed (the root of the file
\* system is its own parent).
ParentDirectory(root) ==
    LET d == Resolve(root)
        i == LastSlash(d)
    IN  IF i <= 1 THEN <<"/">> ELSE SubSeq(d, 1, i - 1)

\* the directories whose policy.txt matters to a run on root: the root and
\* the directory above it
NearDirs(root) == {Resolve(root), ParentDirectory(root)}

\* The text of the policy.txt of directory d: the last character of d.
FileText(d) == <<"T", d[Len(d)]>>

(***************************************************************************)
(* Error messages of the code.                                             *)
(***************************************************************************)
ErrNoNpx == "npx is not available. Please install Node.js and npm."
ErrSpawn == "OSError"
ErrStartup == "MCP server failed to start"
ErrNotRunning == "MCP server is not running"
ErrNoResponse == "No response from MCP server"
ErrServer == "MCP server error"
ErrTimeout == "MCP server request timed out"
ErrBadJson == "Invalid JSON response from MCP server"
ErrNoPolicy == "policy.txt not found and no policy content provided"
ErrProvider == "Unsupported LLM provider"
ErrSnapshot == "snapshot error"
ErrEndpoint == "provider error"
ErrLibrary == "provider library error"
ErrLookup == "ProcessLookupError"
ErrConnectionLost == "Connection lost"
ErrDecode == "UnicodeDecodeError"
ErrLimit == "chunk is longer than limit"
ErrAttribute == "AttributeError"
ErrType == "TypeError"

Providers == {"OpenAI", "Anthropic", "Gemini"}

NoRet == [kind |-> "none", err |-> "", shape |-> "", text |-> <<>>]
Ok(shape, text) == [kind |-> "ok", err |-> "", shape |-> shape, text |-> text]
Raise(e) == [kind |-> "raise", err |-> e, shape |-> "", text |-> <<>>]

NoResult == [none |-> TRUE]

(***************************************************************************)
(* The worker process (environment).  It answers the requests on its       *)
(* standard input in order, one line each.  A read_file of an existing     *)
(* policy.txt is answered with a result, of any of the shapes the resolver *)
(* distinguishes; of a missing one with an error.  Any request may be      *)
(* answered with a line that is not JSON ("garbage") or not UTF-8, or with *)
(* JSON that is not an object (a list, null), and the answer may come      *)
(* after lines that answer nothing (notifications).  The                   *)
(* line that carries a large file may be longer than the limit of the      *)
(* client's stream reader: "too_long" when the whole line is there when it *)
(* is read, "huge" when only a part longer than the limit is.              *)
(***************************************************************************)
ReadShapes ==
    {"text_block", "no_text_block", "empty_list", "no_content",
     "content_string", "text_null", "bad_block", "result_not_object"}

Line(n, kind, shape, text) == [req |-> n, kind |-> kind, shape |-> shape, text |-> text]

FileDir(path) == Resolve(dirname(path))

WorkerAnswers(n) ==
    LET r == stdin[n]
    IN  {Line(n, k, "", <<>>) : k \in {"garbage", "not_utf8", "json_list", "json_null"}} \cup
        IF r.method = "initialize"
        THEN {Line(n, "result", "init", <<>>), Line(n, "error", "", <<>>)}
        ELSE IF FileDir(r.path) \in files
             THEN {Line(n, "result", sh, FileText(FileDir(r.path))) : sh \in ReadShapes}
                  \cup {Line(n, "too_long", "", <<>>), Line(n, "huge", "", <<>>)}
             ELSE {Line(n, "error", "", <<>>)}

\* 1 for a line that is not the result or the error of a request
Stray(l) == IF l.kind \in {"result", "error"} THEN 0 ELSE 1

\* k lines that answer no request: objects with neither result nor error
Notifications(k) == [i \in 1..k |-> Line(0, "notification", "", <<>>)]

WorkerRespond ==
    /\ worker = "running"
    /\ ~eof
    /\ answered < Len(stdin)
    /\ \E l \in WorkerAnswers(answered + 1), k \in 0..(IF answered < NotifiedRequests THEN MaxNotifications ELSE 0) :
          /\ stray + k + Stray(l) <= MaxStrayLines
          /\ stray' = stray + k + Stray(l)
          /\ stdout' = stdout \o Notifications(k) \o <<l>>
    /\ answered' = answered + 1
    /\ UNCHANGED <<inputVars, hostVars, bridgeVars, timedOut, eof, stdinClosed, runVars, process, op, elapsed, ret, worker,
                   stdin, procCalls, closeCalls, startCalls, linesRead, calls>>

\* The worker's output pipes reach end of file: the worker has closed them, or
\* it has died and the event loop sees the pipes before the exit.
WorkerEof ==
    /\ worker \in {"running", "dead", "exited"}
    /\ ~eof
    /\ eof' = TRUE
    /\ UNCHANGED <<inputVars, stray, hostVars, bridgeVars, timedOut, stdinClosed, runVars, process, op, elapsed, ret, worker, stdin,
                   stdout, answered, procCalls, closeCalls, startCalls, linesRead, calls>>

\* The worker's input pipe is seen closed: the worker has closed it, or it
\* has died and the event loop sees the pipe before the exit.
WorkerCloseStdin ==
    /\ worker \in {"running", "dead", "exited"}
    /\ ~stdinClosed
    /\ stdinClosed' = TRUE
    /\ UNCHANGED <<inputVars, stray, hostVars, bridgeVars, timedOut, eof, runVars, process, op, elapsed, ret, worker, stdin,
                   stdout, answered, procCalls, closeCalls, startCalls, linesRead, calls>>

\* The worker process exits (on its own, or on a signal).  The event loop
\* has not seen it yet: the return code of the handle is still None.
WorkerExit ==
    /\ worker = "running"
    /\ worker' = "dead"
    /\ UNCHANGED <<inputVars, stray, hostVars, bridgeVars, timedOut, eof, stdinClosed, runVars, process, op, elapsed, ret, stdin,
                   stdout, answered, procCalls, closeCalls, startCalls, linesRead, calls>>

\* The event loop sees the worker's exit: the return code is set.  The pipes
\* may still be held open by a child of the worker.
ExitSeen ==
    /\ worker = "dead"
    /\ worker' = "exited"
    /\ UNCHANGED <<inputVars, stray, hostVars, bridgeVars, timedOut, eof, stdinClosed, runVars, process, op, elapsed, ret, stdin,
                   stdout, answered, procCalls, closeCalls, startCalls, linesRead, calls>>

\* Exit seen and all pipes disconnected: the subprocess transport finishes,
\* drops its process object and wakes the waiters of wait().
WorkerReap ==
    /\ worker = "exited"
    /\ eof
    /\ stdinClosed
    /\ worker' = "reaped"
    /\ UNCHANGED <<inputVars, stray, hostVars, bridgeVars, timedOut, eof, stdinClosed, runVars, process, op, elapsed, ret, stdin,
                   stdout, answered, procCalls, closeCalls, startCalls, linesRead, calls>>

(***************************************************************************)
(* MCPFilesystemClient.  Each method's entry is an operator used by the    *)
(* step of the caller that invokes it: it runs the method up to its first  *)
(* wait.  The entries set process, op, elapsed, ret, worker, stdin,        *)
(* procCalls, closeCalls and startCalls.                                   *)
(***************************************************************************)
Request(method, path) == [jsonrpc |-> "2.0", id |-> 1, method |-> method, path |-> path]

\* start_server up to its first wait: the launcher probe (subprocess.run,
\* which does not suspend) and the entry into create_subprocess_exec
start_server ==
    /\ startCalls' = startCalls + 1
    /\ UNCHANGED <<stdin, procCalls, closeCalls, process, worker, elapsed>>
    /\ \/ /\ ret' = Raise(ErrNoNpx)
          /\ op' = "ret"
       \/ /\ ret' = NoRet
          /\ op' = "spawn"

\* self.process.returncode is not None
ReturnCodeSet == worker \in {"exited", "reaped"}

\* the guard of send_request
NotRunning == process = "None" \/ ReturnCodeSet

\* send_request up to its first wait: the guard, the write of one request
\* line and drain(), which returns at once on an open pipe and suspends for
\* one iteration of the loop on a closed one
send_request(method, path) ==
    /\ UNCHANGED <<process, worker, procCalls, closeCalls, startCalls>>
    /\ CASE NotRunning ->
              /\ ret' = Raise(ErrNotRunning)
              /\ op' = "ret"
              /\ UNCHANGED <<stdin, elapsed>>
         [] ~NotRunning /\ stdinClosed ->
              /\ ret' = NoRet
              /\ op' = "drain"
              /\ UNCHANGED <<stdin, elapsed>>
         [] OTHER ->
              /\ stdin' = Append(stdin, Request(method, path))
              /\ op' = "read_wait"
              /\ elapsed' = 0
              /\ ret' = NoRet

initialize == send_request("initialize", <<>>)

call_tool(path) == send_request("tools/call", path)

\* process.wait() is entered: with the return code set it returns at once,
\* otherwise when the transport finishes (the worker is reaped)
WaitEntered(call) ==
    IF ReturnCodeSet THEN call \o "_return" ELSE call \o "_wait"

\* Mutant of close: the worker is killed at once instead of being asked to
\* terminate.
closeKillFirst ==
    /\ closeCalls' = closeCalls + 1
    /\ UNCHANGED <<process, worker, stdin, startCalls>>
    /\ IF process = "None"
       THEN /\ ret' = Ok("", <<>>)
            /\ op' = "ret"
            /\ UNCHANGED <<procCalls, elapsed>>
       ELSE /\ procCalls' = Append(procCalls, "kill")
            /\ IF worker = "reaped"
               THEN /\ ret' = Raise(ErrLookup)
                    /\ op' = "ret"
                    /\ UNCHANGED elapsed
               ELSE /\ op' = "close_call"
                    /\ elapsed' = 0
                    /\ ret' = NoRet

\* close up to its first wait: the test of the handle, terminate() and the
\* entry into wait_for
close ==
    /\ closeCalls' = closeCalls + 1
    /\ UNCHANGED <<process, worker, stdin, startCalls>>
    /\ IF process = "None"
       THEN /\ ret' = Ok("", <<>>)
            /\ op' = "ret"
            /\ UNCHANGED <<procCalls, elapsed>>
       ELSE /\ procCalls' = Append(procCalls, "terminate")
            /\ IF worker = "reaped"
               THEN /\ ret' = Raise(ErrLookup)
                    /\ op' = "ret"
                    /\ UNCHANGED elapsed
               ELSE /\ op' = "close_call"
                    /\ elapsed' = 0
                    /\ ret' = NoRet

\* One time unit of a bounded wait passes and the wait has not ended.  In
\* the wait for a response line this is also so with a line or the end of
\* file in the reader's buffer: the event loop may not have run since it
\* arrived (the process was stopped, or a callback keeps the loop busy).
Tick ==
    /\ \/ op = "grace" /\ elapsed < START_GRACE
       \/ op = "read_wait" /\ elapsed < READ_TIMEOUT
       \/ op = "close_wait" /\ elapsed < CLOSE_TIMEOUT /\ worker # "reaped"
    /\ elapsed' = elapsed + 1
    /\ UNCHANGED <<inputVars, stray, hostVars, bridgeVars, timedOut, eof, stdinClosed, runVars, process, op, ret, worker, stdin, stdout,
                   answered, procCalls, closeCalls, startCalls, linesRead, calls>>

\* start_server: create_subprocess_exec returns the handle of a new worker
\* with new pipes, which replaces the handle the client had, and the sleep is
\* entered; or it raises
Spawned ==
    /\ op = "spawn"
    /\ \/ /\ ret' = Raise(ErrSpawn)
          /\ op' = "ret"
          /\ UNCHANGED <<process, worker>>
          /\ UNCHANGED <<eof, stdinClosed, stdout, answered>>
       \/ /\ process' = "Proc"
          /\ worker' = "running"
          /\ op' = "grace"
          /\ ret' = NoRet
          /\ eof' = FALSE
          /\ stdinClosed' = FALSE
          /\ stdout' = <<>>
          /\ answered' = Len(stdin)
    /\ elapsed' = 0
    /\ UNCHANGED <<inputVars, stray, hostVars, bridgeVars, timedOut, runVars, stdin,
                   procCalls, closeCalls, startCalls, linesRead, calls>>

\* send_request: drain() raises ConnectionResetError on the closed input pipe
DrainRaises ==
    /\ op = "drain"
    /\ ret' = Raise(ErrConnectionLost)
    /\ op' = "ret"
    /\ elapsed' = 0
    /\ UNCHANGED <<inputVars, stray, hostVars, bridgeVars, timedOut, eof, stdinClosed, runVars, process, worker, stdin,
                   stdout, answered, procCalls, closeCalls, startCalls, linesRead, calls>>

\* close: the task wait_for made of process.wait() starts, one iteration of
\* the loop after terminate(), and tests the return code
CloseWaitEntered ==
    /\ op = "close_call"
    /\ op' = WaitEntered("close")
    /\ elapsed' = 0
    /\ UNCHANGED <<inputVars, stray, hostVars, bridgeVars, timedOut, eof, stdinClosed, runVars, process, ret, worker, stdin,
                   stdout, answered, procCalls, closeCalls, startCalls, linesRead, calls>>

\* start_server after the sleep: the test of the return code
GraceEnd ==
    /\ op = "grace"
    /\ elapsed = START_GRACE
    /\ IF ~ReturnCodeSet
       THEN op' = "ret" /\ ret' = Ok("", <<>>)
       ELSE op' = "stderr_read" /\ ret' = NoRet
    /\ elapsed' = 0
    /\ UNCHANGED <<inputVars, stray, hostVars, bridgeVars, timedOut, eof, stdinClosed, runVars, process, worker, stdin, stdout,
                   answered, procCalls, closeCalls, startCalls, linesRead, calls>>

\* start_server: stderr.read() returns at end of file, then the error is
\* raised, or decode() fails on what the worker wrote
StderrRead ==
    /\ op = "stderr_read"
    /\ eof
    /\ op' = "ret"
    /\ \E e \in {ErrStartup, ErrDecode} : ret' = Raise(e)
    /\ elapsed' = 0
    /\ UNCHANGED <<inputVars, stray, hostVars, bridgeVars, timedOut, eof, stdinClosed, runVars, process, worker, stdin, stdout,
                   answered, procCalls, closeCalls, startCalls, linesRead, calls>>

\* what send_request makes of one response line
ParseLine(l) ==
    CASE l.kind = "garbage" -> Raise(ErrBadJson)
      [] l.kind = "not_utf8" -> Raise(ErrDecode)
      [] l.kind = "json_list" -> Raise(ErrAttribute)
      [] l.kind = "json_null" -> Raise(ErrType)
      [] l.kind = "notification" -> Ok("no_content", <<>>)
      [] l.kind \in {"too_long", "huge"} -> Raise(ErrLimit)
      [] l.kind = "error" -> Raise(ErrServer)
      [] OTHER -> Ok(l.shape, l.text)

\* what readline() leaves of a line longer than the limit of which only a
\* part has arrived: the rest, itself too long or a line that is not JSON
Remainder(l) == {Line(l.req, k, "", <<>>) : k \in {"too_long", "garbage"}}

\* send_request: readline() returns a line, or raises ValueError on one
\* longer than its limit
ReadLine ==
    /\ op = "read_wait"
    /\ stdout # <<>>
    /\ ret' = ParseLine(Head(stdout))
    /\ IF Head(stdout).kind = "huge"
       THEN /\ \E l \in Remainder(Head(stdout)) : stdout' = <<l>> \o Tail(stdout)
            /\ UNCHANGED linesRead
       ELSE /\ stdout' = Tail(stdout)
            /\ linesRead' = linesRead + 1
    /\ op' = "ret"
    /\ elapsed' = 0
    /\ UNCHANGED <<inputVars, stray, hostVars, bridgeVars, timedOut, eof, stdinClosed, runVars, process, worker, stdin, answered,
                   procCalls, closeCalls, startCalls, calls>>

\* send_request: readline() returns the empty bytes at end of file
ReadEof ==
    /\ op = "read_wait"
    /\ stdout = <<>>
    /\ eof
    /\ ret' = Raise(ErrNoResponse)
    /\ op' = "ret"
    /\ elapsed' = 0
    /\ UNCHANGED <<inputVars, stray, hostVars, bridgeVars, timedOut, eof, stdinClosed, runVars, process, worker, stdin, stdout,
                   answered, procCalls, closeCalls, startCalls, linesRead, calls>>

\* send_request: wait_for gives up at the bound; a line or the end of file
\* that has arrived and that readline() has not returned yet stays unread
ReadTimeout ==
    /\ op = "read_wait"
    /\ elapsed = READ_TIMEOUT
    /\ ret' = Raise(ErrTimeout)
    /\ op' = "ret"
    /\ elapsed' = 0
    /\ timedOut' = TRUE
    /\ UNCHANGED <<inputVars, stray, hostVars, bridgeVars, eof, stdinClosed, runVars, process, worker, stdin, stdout,
                   answered, procCalls, closeCalls, startCalls, linesRead, calls>>

\* close: process.wait() returns within the bound
CloseWaitDone ==
    /\ \/ op = "close_return"
       \/ op = "close_wait" /\ worker = "reaped"
    /\ ret' = Ok("", <<>>)
    /\ op' = "ret"
    /\ elapsed' = 0
    /\ UNCHANGED <<inputVars, stray, hostVars, bridgeVars, timedOut, eof, stdinClosed, runVars, process, worker, stdin, stdout,
                   answered, procCalls, closeCalls, startCalls, linesRead, calls>>

\* close: wait_for gives up at the bound: it cancels the task of
\* process.wait() and raises TimeoutError once the task has ended
CloseTimeout ==
    /\ op = "close_wait"
    /\ worker # "reaped"
    /\ elapsed = CLOSE_TIMEOUT
    /\ op' = "close_timeout"
    /\ elapsed' = 0
    /\ UNCHANGED <<inputVars, stray, hostVars, bridgeVars, timedOut, eof, stdinClosed, runVars, process, ret, worker, stdin, stdout,
                   answered, procCalls, closeCalls, startCalls, linesRead, calls>>

\* close: the except block: kill(), which raises ProcessLookupError when the
\* transport has finished in the meantime, then the entry into process.wait()
KillCalled ==
    /\ op = "close_timeout"
    /\ procCalls' = Append(procCalls, "kill")
    /\ IF worker = "reaped"
       THEN op' = "ret" /\ ret' = Raise(ErrLookup)
       ELSE op' = WaitEntered("kill") /\ ret' = NoRet
    /\ elapsed' = 0
    /\ UNCHANGED <<inputVars, stray, hostVars, bridgeVars, timedOut, eof, stdinClosed, runVars, process, worker, stdin, stdout,
                   answered, closeCalls, startCalls, linesRead, calls>>

\* close: the unbounded process.wait() after kill() returns
KillWaitDone ==
    /\ \/ op = "kill_return"
       \/ op = "kill_wait" /\ worker = "reaped"
    /\ ret' = Ok("", <<>>)
    /\ op' = "ret"
    /\ elapsed' = 0
    /\ UNCHANGED <<inputVars, stray, hostVars, bridgeVars, timedOut, eof, stdinClosed, runVars, process, worker, stdin, stdout,
                   answered, procCalls, closeCalls, startCalls, linesRead, calls>>

ClientStep ==
    \/ Tick
    \/ Spawned
    \/ DrainRaises
    \/ CloseWaitEntered
    \/ GraceEnd
    \/ StderrRead
    \/ ReadLine
    \/ ReadEof
    \/ ReadTimeout
    \/ CloseWaitDone
    \/ CloseTimeout
    \/ KillCalled
    \/ KillWaitDone

WorkerStep ==
    \/ WorkerRespond
    \/ WorkerEof
    \/ WorkerCloseStdin
    \/ WorkerExit
    \/ ExitSeen
    \/ WorkerReap

(***************************************************************************)
(* get_project_guidelines                                                  *)
(***************************************************************************)
\* the test "policy_content and policy_content.strip()"
SuppliedPolicy(text) == text # None /\ text # <<>> /\ strip(text) # <<>>

\* Mutant of ResolveSupplied: the supplied text is returned trimmed.
ResolveSuppliedStripped(text) == strip(text)

\* what is returned for a supplied policy text
ResolveSupplied(text) == text

\* the results on which the resolver's own code raises (AttributeError): a
\* result that is not an object, a first content block that is not one
ResultRaises(r) == r.shape \in {"bad_block", "result_not_object"}

\* the value returned for the result r of a read_file call
PolicyFromResult(r) ==
    CASE r.shape = "text_block" -> r.text
      [] r.shape = "content_string" -> r.text
      [] r.shape = "text_null" -> None
      [] r.shape = "no_text_block" -> <<>>
      [] r.shape = "empty_list" -> <<"[", "]">>
      [] OTHER -> <<>>

\* the two candidate locations
RootPolicyPath(root) == join(root, PolicyFile)
ParentPolicyPath(root) == join(dirname(root), PolicyFile)

(***************************************************************************)
(* list_project_structure_sync.  A tree maps a path, the sequence of the  *)
(* names from the project root down, to the kind of the entry; a name and *)
(* a listed relative path are sequences of characters.                    *)
(***************************************************************************)
MaxSnapshots == 2

NameA == <<"a">>
NameADash == <<"a", "-">>
NameB == <<"b">>
NameX == <<"x">>
NameHidden == <<".", "y">>
NameZ == <<"z">>
NamePolicy == <<"p", "o", "l", "i", "c", "y", ".", "t", "x", "t">>

RootNames == {NameA, NameADash, NameB}

TreePaths ==
    {<<>>, <<NameA>>, <<NameADash>>, <<NameB>>, <<NameA, NameX>>,
     <<NameA, NameHidden>>, <<NameA, NameX, NameZ>>}

\* "locked" is a directory os.listdir refuses with PermissionError, "other"
\* an entry that is neither a file nor a directory
Kinds == {"absent", "file", "dir", "locked", "other"}

KindsOf(p) ==
    CASE p = <<>> -> {"dir", "locked"}
      [] p = <<NameA>> -> {"absent", "file", "dir", "locked"}
      [] p = <<NameB>> -> {"absent", "file", "other"}
      [] p = <<NameA, NameX>> -> {"absent", "file", "dir"}
      [] OTHER -> {"absent", "file"}

Trees ==
    {t \in [TreePaths -> Kinds] :
        \A p \in TreePaths :
            /\ t[p] \in KindsOf(p)
            /\ (p # <<>> /\ t[p] # "absent") =>
                  t[SubSeq(p, 1, Len(p) - 1)] \in {"dir", "locked"}}

\* the tree of a run with project root root, where the directories fs hold
\* a policy.txt
ProjectTree(root, fs) ==
    [p \in TreePaths \cup {<<NamePolicy>>} |->
        CASE p \in {<<>>, <<NameA>>, <<NameA, NameX>>} -> "dir"
          [] p = <<NameB>> -> "other"
          [] p = <<NamePolicy>> -> IF Resolve(root) \in fs THEN "file" ELSE "absent"
          [] OTHER -> "file"]

\* the orders in which os.listdir may enumerate the names of a directory
Orders ==
    {o \in {<<a, b, c, NameX, NameHidden, NameZ>> :
                a \in RootNames, b \in RootNames, c \in RootNames} :
        {o[1], o[2], o[3]} = RootNames}

\* the same with policy.txt enumerated first or last
OrdersWithPolicy ==
    {<<NamePolicy>> \o o : o \in Orders} \cup {o \o <<NamePolicy>> : o \in Orders}

Kind(t, p) == IF p \in DOMAIN t THEN t[p] ELSE "absent"

\* os.listdir(p): the names of the entries of p, in the order o
listdir(t, o, p) == SelectSeq(o, LAMBDA n : Kind(t, Append(p, n)) # "absent")

\* os.path.relpath(item_path, project_path): the names joined by "/"
RECURSIVE relpath(_)
relpath(p) ==
    IF Len(p) = 1 THEN p[1]
    ELSE relpath(SubSeq(p, 1, Len(p) - 1)) \o <<"/">> \o p[Len(p)]

RECURSIVE get_files_recursive(_, _, _)
RECURSIVE ListItems(_, _, _, _)

\* the body of the for loop, for the names items still to enumerate
ListItems(t, o, p, items) ==
    IF items = <<>> THEN <<>>
    ELSE LET item == Head(items)
             item_path == Append(p, item)
             rest == ListItems(t, o, p, Tail(items))
         IN  CASE item[1] = "." -> rest
               [] Kind(t, item_path) = "file" -> <<relpath(item_path)>> \o rest
               [] Kind(t, item_path) \in {"dir", "locked"} ->
                     <<relpath(item_path) \o <<"/">>>>
                        \o get_files_recursive(t, o, item_path) \o rest
               [] OTHER -> rest

get_files_recursive(t, o, p) ==
    IF Kind(t, p) = "locked" THEN <<>> ELSE ListItems(t, o, p, listdir(t, o, p))

\* ord(c) of the characters of the names and of the separator
Ord(c) ==
    CASE c = "-" -> 45
      [] c = "." -> 46
      [] c = "/" -> 47
      [] c = "a" -> 97
      [] c = "b" -> 98
      [] c = "c" -> 99
      [] c = "i" -> 105
      [] c = "l" -> 108
      [] c = "o" -> 111
      [] c = "p" -> 112
      [] c = "t" -> 116
      [] c = "x" -> 120
      [] c = "y" -> 121
      [] c = "z" -> 122

\* s < t of two Python strings
RECURSIVE StrLess(_, _)
StrLess(s, t) ==
    CASE t = <<>> -> FALSE
      [] s = <<>> -> TRUE
      [] Head(s) # Head(t) -> Ord(Head(s)) < Ord(Head(t))
      [] OTHER -> StrLess(Tail(s), Tail(t))

\* x put into the sorted list l, after the elements not greater than it
RECURSIVE Insert(_, _)
Insert(x, l) ==
    IF l = <<>> THEN <<x>>
    ELSE IF StrLess(x, Head(l)) THEN <<x>> \o l
    ELSE <<Head(l)>> \o Insert(x, Tail(l))

\* sorted(l): a stable sort of a list of strings
RECURSIVE sorted(_)
sorted(l) ==
    IF l = <<>> THEN <<>>
    ELSE Insert(l[Len(l)], sorted(SubSeq(l, 1, Len(l) - 1)))

\* a listing returned in the order of enumeration
list_project_structure_unsorted(t, o) == get_files_recursive(t, o, <<>>)

list_project_structure_sync(t, o) == sorted(get_files_recursive(t, o, <<>>))

\* the listings a run may find for its tree
SnapshotLists == {list_project_structure_sync(tree, o) : o \in OrdersWithPolicy}

(***************************************************************************)
(* run_validation_async.  Each operator below is a stretch of the          *)
(* coroutine that runs without waiting; it ends by entering a client       *)
(* method or the provider call.  They set the variables of the run and     *)
(* those the client entries set.                                           *)
(***************************************************************************)
\* Mutant of Failure: the failure record carries a partial report.
FailureWithReport(e) == [success |-> FALSE, error |-> e, report |-> ""]

Failure(e) == [success |-> FALSE, error |-> e]
Success(pol, fl, rep) ==
    [success |-> TRUE, policy |-> pol, project_files |-> fl, report |-> rep]

\* Mutant of Except: the failure path returns without closing the client.
ExceptNoClose(e, pol, fl, done) ==
    /\ result' = [success |-> FALSE, error |-> e]
    /\ policy' = pol
    /\ project_files' = fl
    /\ succeeded' = done
    /\ stage' = "finally"
    /\ op' = "ret"
    /\ ret' = Ok("", <<>>)
    /\ UNCHANGED <<outcome, llmCalls, process, worker, stdin, elapsed,
                   procCalls, closeCalls, startCalls>>

\* the except block followed by the finally block
Except(e, pol, fl, done) ==
    /\ result' = Failure(e)
    /\ policy' = pol
    /\ project_files' = fl
    /\ succeeded' = done
    /\ stage' = "finally"
    /\ UNCHANGED <<outcome, llmCalls>>
    /\ close

\* the return of the try block followed by the finally block
Return(rep) ==
    /\ result' = Success(policy, project_files, rep)
    /\ succeeded' = succeeded \cup {"provider"}
    /\ stage' = "finally"
    /\ UNCHANGED <<policy, project_files, outcome, llmCalls>>
    /\ close

\* a dispatch that sends every provider name to a model endpoint
DispatchAnyProvider(pol, fl, done) ==
    /\ llmCalls' = llmCalls + 1
    /\ policy' = pol
    /\ project_files' = fl
    /\ succeeded' = done
    /\ stage' = "llm"
    /\ op' = "idle"
    /\ ret' = NoRet
    /\ UNCHANGED <<result, outcome, process, worker, stdin, elapsed,
                   procCalls, closeCalls, startCalls>>

\* the provider dispatch, entered with the snapshot fl: for a supported name
\* the import of the provider's library and the constructor of its client,
\* which may raise, then the request to the endpoint
Dispatch(pol, fl, done) ==
    IF llm_provider \in {"OpenAI", "Anthropic"}
    THEN \/ Except(ErrLibrary, pol, fl, done)
         \/ /\ llmCalls' = llmCalls + 1
            /\ policy' = pol
            /\ project_files' = fl
            /\ succeeded' = done
            /\ stage' = "llm"
            /\ op' = "idle"
            /\ ret' = NoRet
            /\ UNCHANGED <<result, outcome, process, worker, stdin, elapsed,
                           procCalls, closeCalls, startCalls>>
    ELSE Except(ErrProvider, pol, fl, done)

\* from the policy pol on: the snapshot, then the provider dispatch
Evaluate(pol, done) ==
    \/ Except(ErrSnapshot, pol, project_files, done \cup {"policy"})
    \/ \E fl \in SnapshotLists : Dispatch(pol, fl, done \cup {"policy", "snapshot"})

\* a tool call of the resolver is entered
ResolverCall(path, next, done) ==
    /\ stage' = next
    /\ succeeded' = done
    /\ UNCHANGED <<policy, project_files, result, outcome, llmCalls>>
    /\ call_tool(path)

RunBegin ==
    /\ stage = "new"
    /\ stage' = "start"
    /\ start_server
    /\ UNCHANGED <<policy, project_files, result, outcome, succeeded, llmCalls>>
    /\ UNCHANGED <<inputVars, stray, hostVars, bridgeVars, timedOut, eof, stdinClosed, stdout, answered, linesRead, calls>>

AfterStart ==
    /\ stage = "start"
    /\ op = "ret"
    /\ IF ret.kind = "ok"
       THEN /\ stage' = "initialize"
            /\ succeeded' = succeeded \cup {"start"}
            /\ UNCHANGED <<policy, project_files, result, outcome, llmCalls>>
            /\ initialize
       ELSE Except(ret.err, policy, project_files, succeeded)
    /\ UNCHANGED <<inputVars, stray, hostVars, bridgeVars, timedOut, eof, stdinClosed, stdout, answered, linesRead, calls>>

\* Mutant of AfterInitialize: a failed handshake is ignored.
AfterInitializeUnchecked ==
    /\ stage = "initialize"
    /\ op = "ret"
    /\ LET done == IF ret.kind = "ok" THEN succeeded \cup {"initialize"} ELSE succeeded
       IN  IF SuppliedPolicy(policy_content)
           THEN Evaluate(ResolveSupplied(policy_content), done)
           ELSE ResolverCall(RootPolicyPath(project_path), "policy_root", done)
    /\ UNCHANGED <<inputVars, stray, hostVars, bridgeVars, timedOut, eof, stdinClosed, stdout, answered, linesRead, calls>>

\* after the handshake: the resolver's test of the supplied text
AfterInitialize ==
    /\ stage = "initialize"
    /\ op = "ret"
    /\ IF ret.kind = "ok"
       THEN IF SuppliedPolicy(policy_content)
            THEN Evaluate(ResolveSupplied(policy_content), succeeded \cup {"initialize"})
            ELSE ResolverCall(RootPolicyPath(project_path), "policy_root",
                              succeeded \cup {"initialize"})
       ELSE Except(ret.err, policy, project_files, succeeded)
    /\ UNCHANGED <<inputVars, stray, hostVars, bridgeVars, timedOut, eof, stdinClosed, stdout, answered, linesRead, calls>>

\* the resolver after the read at the project root
AfterPolicyRoot ==
    /\ stage = "policy_root"
    /\ op = "ret"
    /\ IF ret.kind = "ok" /\ ~ResultRaises(ret)
       THEN Evaluate(PolicyFromResult(ret), succeeded)
       ELSE ResolverCall(ParentPolicyPath(project_path), "policy_parent", succeeded)
    /\ UNCHANGED <<inputVars, stray, hostVars, bridgeVars, timedOut, eof, stdinClosed, stdout, answered, linesRead, calls>>

\* the resolver after the read one level above
AfterPolicyParent ==
    /\ stage = "policy_parent"
    /\ op = "ret"
    /\ IF ret.kind = "ok" /\ ~ResultRaises(ret)
       THEN Evaluate(PolicyFromResult(ret), succeeded)
       ELSE Except(ErrNoPolicy, policy, project_files, succeeded)
    /\ UNCHANGED <<inputVars, stray, hostVars, bridgeVars, timedOut, eof, stdinClosed, stdout, answered, linesRead, calls>>

\* the provider's reply, or its failure
ProviderReply ==
    /\ stage = "llm"
    /\ \/ Return("report")
       \/ Except(ErrEndpoint, policy, project_files, succeeded)
    /\ UNCHANGED <<inputVars, stray, hostVars, bridgeVars, timedOut, eof, stdinClosed, stdout, answered, linesRead, calls>>

\* the finally block has run: the run returns, or the exception of close() leaves it
AfterClose ==
    /\ stage = "finally"
    /\ op = "ret"
    /\ outcome' = IF ret.kind = "ok" THEN "returned" ELSE "raised"
    /\ stage' = "done"
    /\ op' = "idle"
    /\ UNCHANGED <<inputVars, stray, hostVars, bridgeVars, timedOut, eof, stdinClosed, policy, project_files, result, succeeded, llmCalls,
                   process, elapsed, ret, worker, stdin, stdout, answered,
                   procCalls, closeCalls, startCalls, linesRead, calls>>

RunStep ==
    \/ RunBegin
    \/ AfterStart
    \/ AfterInitialize
    \/ AfterPolicyRoot
    \/ AfterPolicyParent
    \/ ProviderReply
    \/ AfterClose

\* the coroutine is awaited by its caller, not passed to run_async
NoBridge == bridge = "none" /\ loop = "none" /\ executions = 0

InitCommon ==
    /\ process = "None"
    /\ op = "idle"
    /\ elapsed = 0
    /\ ret = NoRet
    /\ worker = "none"
    /\ eof = FALSE
    /\ stdinClosed = FALSE
    /\ stdin = <<>>
    /\ stdout = <<>>
    /\ answered = 0
    /\ stray = 0
    /\ policy = <<>>
    /\ project_files = <<>>
    /\ result = NoResult
    /\ outcome = "running"
    /\ procCalls = <<>>
    /\ closeCalls = 0
    /\ startCalls = 0
    /\ linesRead = 0
    /\ succeeded = {}
    /\ llmCalls = 0
    /\ timedOut = FALSE
    /\ calls = 0

\* The arguments of the checked runs.  The provider name is read in the
\* dispatch alone and the project path in the paths of the policy reads and
\* in the snapshot: every provider and every placement of policy.txt is run
\* with the path "/a/b", with no policy text and with a supplied one; every
\* path and placement with no policy text and the first provider; and the
\* blank policy text with the path "/".
RunArguments ==
    \/ project_path = <<"/", "a", "/", "b">> /\ policy_content \in {None, <<" ", "p", "\n">>}
    \/ llm_provider = "OpenAI" /\ policy_content = None
    \/ llm_provider = "OpenAI" /\ project_path = <<"/">> /\ policy_content \notin {None, <<" ", "p", "\n">>}

Init ==
    /\ project_path \in ProjectPaths
    /\ llm_provider \in Providers
    /\ policy_content \in PolicyInputs
    /\ files \in SUBSET (PolicyDirs \cap NearDirs(project_path))
    /\ RunArguments
    /\ stage = "new"
    /\ tree = ProjectTree(project_path, files)
    /\ snapshots = <<>>
    /\ NoBridge
    /\ InitCommon

Next == RunStep \/ ClientStep \/ WorkerStep

Spec == Init /\ [][Next]_vars

\* The run under the scheduling the code relies on: the event loop resumes a
\* coroutine whose wait has ended and its clock advances (sleep and wait_for
\* end at their bounds), a provider call returns, a worker sent SIGKILL
\* exits, the pipes of a worker that has exited are closed, and the loop
\* then finishes the transport.  Nothing makes a running worker write, exit
\* on terminate() or close a pipe.
FairInit ==
    /\ project_path = <<"/", "a", "/", "b">>
    /\ llm_provider \in {"OpenAI", "Gemini"}
    /\ policy_content \in {None, <<" ", "p", "\n">>}
    /\ files \in {{}, {<<"/", "a", "/", "b">>}}
    /\ stage = "new"
    /\ tree = ProjectTree(project_path, files)
    /\ snapshots = <<>>
    /\ NoBridge
    /\ InitCommon

FairSpec ==
    /\ FairInit
    /\ [][Next]_vars
    /\ WF_vars(RunStep)
    /\ WF_vars(ClientStep)
    /\ WF_vars(WorkerExit /\ procCalls = <<"terminate", "kill">>)
    /\ WF_vars(WorkerEof /\ worker # "running")
    /\ WF_vars(WorkerCloseStdin /\ worker # "running")
    /\ WF_vars(ExitSeen)
    /\ WF_vars(WorkerReap)

(***************************************************************************)
(* A caller of the client's public methods, one call at a time.            *)
(***************************************************************************)
CallerReady == stage = "api" /\ op \in {"idle", "ret"} /\ calls < MaxCalls

CallStart ==
    /\ CallerReady
    /\ start_server
    /\ calls' = calls + 1
    /\ UNCHANGED <<inputVars, stray, hostVars, bridgeVars, timedOut, eof, stdinClosed, runVars, stdout, answered, linesRead>>

CallInitialize ==
    /\ CallerReady
    /\ initialize
    /\ calls' = calls + 1
    /\ UNCHANGED <<inputVars, stray, hostVars, bridgeVars, timedOut, eof, stdinClosed, runVars, stdout, answered, linesRead>>

CallTool ==
    /\ CallerReady
    /\ call_tool(RootPolicyPath(project_path))
    /\ calls' = calls + 1
    /\ UNCHANGED <<inputVars, stray, hostVars, bridgeVars, timedOut, eof, stdinClosed, runVars, stdout, answered, linesRead>>

CallClose ==
    /\ CallerReady
    /\ close
    /\ calls' = calls + 1
    /\ UNCHANGED <<inputVars, stray, hostVars, bridgeVars, timedOut, eof, stdinClosed, runVars, stdout, answered, linesRead>>

CallerStep == CallStart \/ CallInitialize \/ CallTool \/ CallClose

ClientInit ==
    /\ project_path = <<"/", "a", "/", "b">>
    /\ llm_provider = "OpenAI"
    /\ policy_content = None
    /\ files = {<<"/", "a", "/", "b">>}
    /\ stage = "api"
    /\ tree = ProjectTree(project_path, files)
    /\ snapshots = <<>>
    /\ NoBridge
    /\ InitCommon

ClientNext == CallerStep \/ ClientStep \/ WorkerStep

ClientSpec == ClientInit /\ [][ClientNext]_vars

(***************************************************************************)
(* run_validation: run_async(run_validation_async(...)).  loop is what     *)
(* asyncio.get_event_loop() finds in the calling thread: no loop           *)
(* (RuntimeError), a loop that is not running, a loop running in this      *)
(* thread (the caller is one of its callbacks), or a loop that was set for *)
(* this thread and runs in another one.                                    *)
(***************************************************************************)
LoopStates == {"none", "idle", "running", "running_elsewhere"}

\* except RuntimeError: asyncio.run(coro)
RunNoLoop ==
    /\ bridge = "entry"
    /\ loop = "none"
    /\ bridge' = "direct"
    /\ executions' = executions + 1
    /\ stage' = "new"
    /\ UNCHANGED <<inputVars, stray, hostVars, loop, policy, project_files, result,
                   outcome, succeeded, llmCalls, process, op, elapsed, ret,
                   worker, eof, stdinClosed, stdin, stdout, answered, procCalls,
                   closeCalls, startCalls, linesRead, timedOut, calls>>

\* loop.run_until_complete(coro)
RunUntilComplete ==
    /\ bridge = "entry"
    /\ loop = "idle"
    /\ bridge' = "direct"
    /\ executions' = executions + 1
    /\ stage' = "new"
    /\ UNCHANGED <<inputVars, stray, hostVars, loop, policy, project_files, result,
                   outcome, succeeded, llmCalls, process, op, elapsed, ret,
                   worker, eof, stdinClosed, stdin, stdout, answered, procCalls,
                   closeCalls, startCalls, linesRead, timedOut, calls>>

\* executor.submit(asyncio.run, coro) and the entry into future.result(),
\* which blocks the calling thread; a loop running in that thread runs
\* nothing until the call returns
RunInWorker ==
    /\ bridge = "entry"
    /\ loop \in {"running", "running_elsewhere"}
    /\ bridge' = "worker"
    /\ loop' = IF loop = "running" THEN "blocked" ELSE loop
    /\ executions' = executions + 1
    /\ stage' = "new"
    /\ UNCHANGED <<inputVars, stray, hostVars, policy, project_files, result,
                   outcome, succeeded, llmCalls, process, op, elapsed, ret,
                   worker, eof, stdinClosed, stdin, stdout, answered, procCalls,
                   closeCalls, startCalls, linesRead, timedOut, calls>>

\* the coroutine has ended: run_async returns its result or passes on its
\* exception
BridgeReturn ==
    /\ bridge \in {"direct", "worker"}
    /\ stage = "done"
    /\ bridge' = IF outcome = "returned" THEN "returned" ELSE "raised"
    /\ loop' = IF loop = "blocked" THEN "running" ELSE loop
    /\ UNCHANGED <<inputVars, stray, hostVars, executions, runVars, process, op,
                   elapsed, ret, worker, eof, stdinClosed, stdin, stdout, answered,
                   procCalls, closeCalls, startCalls, linesRead, timedOut,
                   calls>>

BridgeStep == RunNoLoop \/ RunUntilComplete \/ RunInWorker \/ BridgeReturn

BridgeInit ==
    /\ project_path = <<"/", "a", "/", "b">>
    /\ llm_provider \in {"OpenAI", "Gemini"}
    /\ policy_content = None
    /\ files \in {{}, {<<"/", "a", "/", "b">>}}
    /\ stage = "pending"
    /\ tree = ProjectTree(project_path, files)
    /\ snapshots = <<>>
    /\ bridge = "entry"
    /\ loop \in LoopStates
    /\ executions = 0
    /\ InitCommon

BridgeNext == BridgeStep \/ RunStep \/ ClientStep \/ WorkerStep

BridgeSpec == BridgeInit /\ [][BridgeNext]_vars

(***************************************************************************)
(* list_project_structure_sync called on an unchanged tree, each call with *)
(* an enumeration order of its own.                                        *)
(***************************************************************************)
SnapshotCall ==
    /\ stage = "listing"
    /\ Len(snapshots) < MaxSnapshots
    /\ \E o \in Orders :
          snapshots' = Append(snapshots,
              [order |-> o, files |-> list_project_structure_sync(tree, o)])
    /\ UNCHANGED <<inputVars, stray, tree, bridgeVars, runVars, process, op, elapsed, ret, worker,
                   eof, stdinClosed, stdin, stdout, answered, procCalls, closeCalls,
                   startCalls, linesRead, timedOut, calls>>

SnapshotInit ==
    /\ project_path = <<"/", "a", "/", "b">>
    /\ llm_provider = "OpenAI"
    /\ policy_content = None
    /\ files = {}
    /\ stage = "listing"
    /\ tree \in Trees
    /\ snapshots = <<>>
    /\ NoBridge
    /\ InitCommon

SnapshotNext == SnapshotCall

SnapshotSpec == SnapshotInit /\ [][SnapshotNext]_vars

(***************************************************************************)
(* Properties.                                                             *)
(***************************************************************************)
AllSteps == {"start", "initialize", "policy", "snapshot", "provider"}

ToolCalls == {i \in DOMAIN stdin : stdin[i].method = "tools/call"}

\* a text that is not empty after trimming, said without strip
NonBlank(text) == text # None /\ \E i \in DOMAIN text : text[i] \notin Whitespace

\* C1: run_validation_async always returns a result record and never raises to
\* its caller, whichever step fails, also when close() itself fails.
\* Violated: close() raises ProcessLookupError out of the finally block when
\* the worker has exited and its pipes are closed.
C1_RunNeverRaises == outcome # "raised"

\* C2 as stated: in every run exactly one terminate-or-kill action is issued
\* to the worker (never zero, never a terminate and a kill, never two
\* terminates).  Violated: none when nothing was spawned, terminate then kill
\* when the close wait times out.
C2_ExactlyOneTerminateOrKill == stage = "done" => Len(procCalls) = 1

\* C2 as amended: a run that spawned a worker calls terminate() on it exactly
\* once, in close(); kill() is called at most once, after that terminate() and
\* only when the wait of CLOSE_TIMEOUT units in close() has timed out; a run
\* that spawned no worker calls neither.
C2_TerminateThenKillOnTimeout ==
    /\ [](/\ procCalls \in {<<>>, <<"terminate">>, <<"terminate", "kill">>}
          /\ process = "None" => procCalls = <<>>
          /\ (stage = "done" /\ process # "None") => procCalls # <<>>)
    /\ [][procCalls' # procCalls =>
            \/ /\ procCalls = <<>>
               /\ procCalls' = <<"terminate">>
               /\ closeCalls' = closeCalls + 1
            \/ /\ procCalls = <<"terminate">>
               /\ procCalls' = <<"terminate", "kill">>
               /\ op = "close_timeout"]_vars

C2_Witness == stage = "done" /\ procCalls = <<"terminate", "kill">>

\* C3: on every exit path of the run close() is called on the client exactly
\* once, and it is the last operation on the client: after it no request is
\* written and start_server is not called.
C3_CloseExactlyOnceLast ==
    /\ [](/\ closeCalls <= 1
          /\ stage = "done" => closeCalls = 1
          /\ closeCalls = 1 => stage \in {"finally", "done"})
    /\ [][closeCalls = 1 =>
            (stdin' = stdin /\ startCalls' = startCalls /\ closeCalls' = closeCalls)]_vars

C3_Witness ==
    /\ stage = "done"
    /\ outcome = "returned"
    /\ result = [success |-> FALSE, error |-> ErrTimeout]
    /\ closeCalls = 1

\* C4: close() is idempotent: a second close() on the same client is a no-op
\* that issues no terminate or kill and performs no wait.
\* Violated: the handle is kept after close(), so a second close() calls
\* terminate() again.
C4_SecondCloseIsNoOp ==
    [][(closeCalls >= 1 /\ closeCalls' = closeCalls + 1) =>
          (procCalls' = procCalls /\ op' = "ret" /\ ret' = Ok("", <<>>))]_vars

\* C5: a returned result has exactly one of two shapes: success with policy,
\* project_files and report and no error, or failure with the error alone; the
\* success shape is returned only when every step succeeded.
C5_ResultShape ==
    outcome = "returned" =>
        \/ /\ DOMAIN result = {"success", "policy", "project_files", "report"}
           /\ result.success
           /\ succeeded = AllSteps
        \/ /\ DOMAIN result = {"success", "error"}
           /\ ~result.success

C5_Witness ==
    /\ outcome = "returned"
    /\ "report" \in DOMAIN result
    /\ result.success
    /\ succeeded = AllSteps

\* C6: when a send has timed out, a close() called afterwards completes
\* successfully and leaves the worker terminated.
\* Violated: when the worker exits and its pipes close after the timeout,
\* close() raises ProcessLookupError (the failure of C1).
C6_CloseSucceedsAfterTimeout ==
    [][(/\ timedOut
        /\ op' = "ret"
        /\ \/ closeCalls' = closeCalls + 1
           \/ op \in {"close_call", "close_wait", "close_return", "close_timeout",
                     "kill_wait", "kill_return"}) =>
          (ret'.kind = "ok" /\ worker' \in {"exited", "reaped"})]_vars

\* C7: no pipelining: a request is written only when every earlier request of
\* the run has had its response line read, so at most one request is
\* unanswered, also after a timeout.
\* Violated: the resolver swallows the timeout of the root read and writes the
\* parent read.
C7_NoPipelining == Len(stdin) <= linesRead + 1

\* C8: the client follows NotStarted -> Running -> Closed and a send
\* (initialize or call_tool) is accepted only in Running: invoked before
\* start_server, after the worker process has exited, or after close(), it
\* fails with the not-running error and writes nothing to the worker.
\* Violated: the guard reads the return code, which is set only when the
\* event loop has seen the exit, so a send after the worker has exited writes
\* its request; and start_server after close() spawns a new worker, after
\* which a send is accepted again.
C8_SendOnlyWhenRunning ==
    [][(/\ calls' = calls + 1
        /\ startCalls' = startCalls
        /\ closeCalls' = closeCalls
        /\ \/ startCalls = 0
           \/ worker \in {"dead", "exited", "reaped"}
           \/ closeCalls >= 1) =>
          (stdin' = stdin /\ op' = "ret" /\ ret' = Raise(ErrNotRunning))]_vars

\* C9: no tools/call request is written unless an initialize request was sent
\* earlier in the run and returned a successful result (the call of
\* initialize() returned without raising).
C9_HandshakeBeforeTools ==
    \A i \in ToolCalls :
        /\ i > 1
        /\ stdin[1].method = "initialize"
        /\ "initialize" \in succeeded

C9_Witness == ToolCalls # {} /\ stage = "done"

\* C10: a supplied policy text that is not empty after trimming is returned
\* unchanged (not trimmed) and no read_file request is sent, whether or not a
\* policy.txt exists at the root or its parent.
C10_SuppliedPolicyVerbatim ==
    NonBlank(policy_content) =>
        /\ ToolCalls = {}
        /\ "policy" \in succeeded => policy = policy_content

C10_Witness ==
    /\ policy_content = <<" ", "p", "\n">>
    /\ Resolve(project_path) \in files
    /\ outcome = "returned"
    /\ "report" \in DOMAIN result
    /\ result.policy = <<" ", "p", "\n">>

\* C11: with no supplied text (absent, empty or whitespace only) the resolver
\* first reads policy.txt of the project root, reads nothing more when that
\* read succeeds, and otherwise reads policy.txt of the directory one level
\* above the project root; it reports policy-not-found only after both reads;
\* for every project root, also one written with a trailing separator.
\* Violated: for a root written "/a/b/" os.path.dirname gives "/a/b", so the
\* second read repeats the root's policy.txt and /a/policy.txt is never read.
C11_PolicyFallbackOrder ==
    ~NonBlank(policy_content) =>
        /\ \A i \in ToolCalls :
              /\ i \in {2, 3}
              /\ i = 2 => FileDir(stdin[i].path) = Resolve(project_path)
              /\ i = 3 => FileDir(stdin[i].path) = ParentDirectory(project_path)
        /\ (result # NoResult /\ result = Failure(ErrNoPolicy)) =>
              "initialize" \in succeeded

\* C12: every text the resolver returns is non-empty; a read_file success
\* without a content list, with an empty content list or with a first block
\* that has no text does not make it return an empty string.
\* Violated: a result without content, or whose first block has no text,
\* makes get_project_guidelines return "", and a first block whose text is
\* null makes it return None.
C12_ResolvedPolicyNonEmpty ==
    "policy" \in succeeded => (policy # None /\ policy # <<>>)

Supported == {"OpenAI", "Anthropic"}

\* C13 as stated: every run whose provider name is neither OpenAI nor
\* Anthropic returns success false with the unsupported-provider error and
\* makes no request to a model endpoint.
\* Violated: the name is tested only after start, initialize, the policy and
\* the snapshot, so a run in which one of these fails reports that failure.
C13_UnsupportedProviderError ==
    (llm_provider \notin Supported /\ stage = "done") =>
        /\ outcome = "returned"
        /\ result = Failure(ErrProvider)
        /\ llmCalls = 0

\* C13 as amended: a run whose provider name is neither OpenAI nor Anthropic
\* makes no request to a model endpoint and returns no success result; the
\* result it returns carries the unsupported-provider error exactly when
\* start, initialize, the policy and the snapshot succeeded, and the error of
\* the failed step otherwise.
C13_UnsupportedProviderNoEndpoint ==
    llm_provider \notin Supported =>
        /\ llmCalls = 0
        /\ "provider" \notin succeeded
        /\ outcome = "returned" =>
              /\ DOMAIN result = {"success", "error"}
              /\ ~result.success
              /\ result.error = ErrProvider <=>
                    succeeded = {"start", "initialize", "policy", "snapshot"}

C13_Witness ==
    /\ llm_provider = "Gemini"
    /\ outcome = "returned"
    /\ result = Failure(ErrProvider)
    /\ succeeded = {"start", "initialize", "policy", "snapshot"}
    /\ llmCalls = 0

\* C16: the line send_request reads for a request is the worker's response to
\* that same request: a response that arrives after its request timed out is
\* never taken as the result of a later request.
\* Violated: every request has id 1 and the id of a response is not looked
\* at, so the read of the parent read_file takes the late answer to the root
\* read_file; a line the worker writes before an answer shifts every later
\* answer by one request in the same way.
C16_ResponseOfSameRequest ==
    [][linesRead' = linesRead + 1 => Head(stdout).req = Len(stdin)]_vars

\* C17: every run eventually returns a result, and a worker that was spawned
\* has exited by the time the run returns, also when the worker never writes
\* a line and does not exit on terminate().
\* Violated: every run ends, but a run whose worker has exited and been
\* reaped before close() ends by raising ProcessLookupError (the failure of
\* C1) and returns no result.
C17_EventuallyReturnsWorkerExited ==
    <>(/\ stage = "done"
       /\ outcome = "returned"
       /\ process # "None" => worker \in {"exited", "reaped"})

\* every run ends, by returning or by raising
C17_RunEnds == <>(stage = "done")

IsSorted(l) == \A i \in 1..(Len(l) - 1) : ~StrLess(l[i + 1], l[i])

\* C15: list_project_structure_sync returns a list in lexicographic order,
\* and two calls on the same unchanged tree return identical lists whatever
\* the order in which the directory entries are enumerated.
C15_SnapshotSortedDeterministic ==
    \A i \in DOMAIN snapshots :
        /\ IsSorted(snapshots[i].files)
        /\ \A j \in DOMAIN snapshots : snapshots[i].files = snapshots[j].files

C15_Witness ==
    /\ Len(snapshots) = 2
    /\ snapshots[1].order # snapshots[2].order
    /\ get_files_recursive(tree, snapshots[1].order, <<>>) #
          get_files_recursive(tree, snapshots[2].order, <<>>)
    /\ snapshots[2].files =
          <<NameADash, <<"a", "/">>, <<"a", "/", "x">>, NameB>>

\* C14: run_validation hands the orchestrator sequence to a loop exactly once
\* and ends with its outcome; with no running loop in the calling thread the
\* sequence runs in that thread, with a running one it runs in a worker
\* thread with a loop of its own, and the loop that was already running is
\* not blocked while run_async waits for the worker.
\* Violated: future.result() blocks the calling thread, which is the thread
\* of the running loop, until the worker is done.
C14_BridgeRunsOnceWithoutBlocking ==
    /\ executions <= 1
    /\ bridge \in {"direct", "worker", "returned", "raised"} => executions = 1
    /\ bridge \in {"returned", "raised"} =>
          /\ stage = "done"
          /\ (bridge = "returned") = (outcome = "returned")
    /\ bridge = "direct" => loop \in {"none", "idle"}
    /\ bridge = "worker" => loop \in {"running", "running_elsewhere"}
====
